---- MODULE Spec2Model ----
(***************************************************************************)
(* Model of ipahealthcheck.core.main: option validation, registry          *)
(* initialisation and plugin discovery, the two execution phases           *)
(* (run_service_plugins, run_plugins), run_plugin and the render handoff.  *)
(*                                                                         *)
(* A plugin instance is referred to by its position in the discovered      *)
(* list `plugins`.  A Python value is a record with a `type` field.        *)
(***************************************************************************)
EXTENDS Integers, Sequences, FiniteSets, TLC

\* ------------------------------------------------------------------ bounds
MaxPlugins == 3
MaxRegistries == 2
\* the check() calls of a run that end otherwise than by handing back a
\* Result of their own plugin
MaxUnusual == 1

\* --------------------------------------------------------------- constants
SUCCESS == "SUCCESS"
ERROR == "ERROR"
CRITICAL == "CRITICAL"

\* Python's None, for the string-valued options
NoneOpt == "<None>"
\* a keyword that was not passed to Result(...)
Absent == "<absent>"

\* the texts of the exceptions a check() raises
Messages == {"M1", "M2"}

\* the values of --source and --check a run can be started with
Options ==
    { <<NoneOpt, NoneOpt>>, <<"", NoneOpt>>, <<"m2", NoneOpt>>, <<"m2", "">>,
      <<"m2", "cd">>, <<NoneOpt, "cd">> }

\* the plugin instances a registry can supply: ServiceCheck or not, the
\* module and class name, service_name and requires
PluginCatalog ==
    { [service |-> TRUE,  module |-> "m1", class |-> "ca", service_name |-> "A", requires |-> {}],
      [service |-> TRUE,  module |-> "m2", class |-> "cb", service_name |-> "B", requires |-> {}],
      [service |-> TRUE,  module |-> "m2", class |-> "ce", service_name |-> "A", requires |-> {}],
      [service |-> FALSE, module |-> "m1", class |-> "cc", service_name |-> Absent, requires |-> {}],
      [service |-> FALSE, module |-> "m2", class |-> "cd", service_name |-> Absent, requires |-> {"A", "B"}] }

\* ------------------------------------------------------------------ values
NoneValue ==
    [type |-> "NoneType", plugin |-> 0, severity |-> Absent, msg |-> <<>>,
     exception |-> Absent, items |-> <<>>]

\* a value that is no Result, Results or None (a string, a number, ...)
OtherValue ==
    [type |-> "str", plugin |-> 0, severity |-> Absent, msg |-> <<>>,
     exception |-> Absent, items |-> <<>>]

\* Result(plugin, severity, msg=..., exception=...)
Result(plugin, severity, msg, exception) ==
    [type |-> "Result", plugin |-> plugin, severity |-> severity, msg |-> msg,
     exception |-> exception, items |-> <<>>]

\* an instance of a subclass of Result
SubResult(plugin, severity) ==
    [type |-> "SubResult", plugin |-> plugin, severity |-> severity,
     msg |-> <<>>, exception |-> Absent, items |-> <<>>]

\* Results() holding the given sequence of Result values
Results(items) ==
    [type |-> "Results", plugin |-> 0, severity |-> Absent, msg |-> <<>>,
     exception |-> Absent, items |-> items]

\* an instance of a subclass of Results
SubResults(items) ==
    [type |-> "SubResults", plugin |-> 0, severity |-> Absent, msg |-> <<>>,
     exception |-> Absent, items |-> items]

\* isinstance(v, Result), isinstance(v, Results)
IsInstanceResult(v) == v.type \in {"Result", "SubResult"}
IsInstanceResults(v) == v.type \in {"Results", "SubResults"}

\* type(v) in (Result, Results)
TypeIsResultOrResults(v) == v.type \in {"Result", "Results"}

\* Results.add(result), Results.extend(results)
ResultsAdd(rs, r) == [rs EXCEPT !.items = Append(rs.items, r)]
ResultsExtend(rs, other) == [rs EXCEPT !.items = rs.items \o other.items]

\* ------------------------------------------------------------------- state
VARIABLES
    pc,           \* position in main
    source,       \* options.source
    check,        \* options.check
    registries,   \* names of the registries the loop of main has yet to handle
    plugins,      \* the list `plugins` of main
    output_only,  \* output.output_only
    idx,          \* position of the phase's loop in `plugins`
    results,      \* `results` of run_service_plugins, then of main
    available,    \* the list `available` of run_service_plugins
    availset,     \* `available` of main: set(available)
    depresults,   \* `results` of run_plugins
    started,      \* plugins whose check() was entered, in order
    completed,    \* plugins whose check() returned or raised, in order
    log,          \* what each handled plugin contributed, in order
    rendered,     \* the arguments of the calls of output.render
    renderend,    \* how the call of output.render ended
    reported,     \* number of logger.error calls of main
    exitcode,     \* exit status of the process once halted
    diag,         \* what the run was ended by
    unusual,      \* number of check() calls that ended unusually
    last          \* the latest call of run_plugin: how check() ended, the result

vars == <<pc, source, check, registries, plugins, output_only, idx, results,
          available, availset, depresults, started, completed, log, rendered, renderend,
          reported, exitcode, diag, unusual, last>>

\* ------------------------------------------------------- external behaviour
\* the severities of the Result a check() hands back
Severities == {SUCCESS, CRITICAL}

\* a plugin of the list other than plugin i (i itself when it is alone)
OtherPlugin(i, n) == (i % n) + 1

\* what plugin.check() can hand back for plugin i of n
ReturnValues(i, n) ==
    { Result(i, s, <<>>, Absent) : s \in Severities }
    \cup { Result(OtherPlugin(i, n), SUCCESS, <<>>, Absent),
           SubResult(i, ERROR),
           Results(<<Result(i, SUCCESS, <<>>, Absent), Result(i, ERROR, <<>>, Absent)>>),
           SubResults(<<Result(i, ERROR, <<>>, Absent)>>),
           NoneValue,
           OtherValue }

\* an exception instance: `base` is Exception for every subclass of
\* Exception, SystemExit for sys.exit(text) (not a subclass of Exception)
Raised(base, text) == [kind |-> "raise", value |-> NoneValue, base |-> base, text |-> text]
Returned(v) == [kind |-> "return", value |-> v, base |-> Absent, text |-> Absent]

\* the ways a call of plugin.check() can end
CheckOutcomes(i, n) ==
    { Returned(v) : v \in ReturnValues(i, n) }
    \cup { Raised("Exception", m) : m \in Messages }
    \cup { Raised("SystemExit", "M1") }

\* check() handing back a Result of its own plugin
PlainOutcomes(i) == { Returned(Result(i, s, <<>>, Absent)) : s \in Severities }

\* the ways registry.initialize(framework) and output.render(results) can end
CallOutcomes ==
    { Returned(NoneValue), Raised("Exception", "M1"), Raised("SystemExit", "M1") }

\* str(e)
Str(e) == e.text

\* the lists of at most n plugin instances, none of `have`, each instance
\* once
RECURSIVE PluginLists(_, _)
PluginLists(n, have) ==
    IF n = 0 THEN { <<>> }
    ELSE { <<>> }
         \cup UNION { { <<p>> \o l : l \in PluginLists(n - 1, have \cup {p}) } :
                       p \in PluginCatalog \ have }

\* ------------------------------------------------------------ pure helpers
\* truth value of an option string: None and "" are false
Truthy(s) == s # NoneOpt /\ s # ""

\* run_plugin without the handler: the exception leaves run_plugin
run_plugin_nocatch(i, o) ==
    IF o.kind = "return"
    THEN [escaped |-> FALSE,
          result |-> IF ~TypeIsResultOrResults(o.value)
                     THEN Result(i, SUCCESS, <<>>, Absent)
                     ELSE o.value]
    ELSE [escaped |-> TRUE, result |-> NoneValue]

\* run_plugin without the type test: whatever check() returns is kept
run_plugin_passthrough(i, o) ==
    IF o.kind = "return"
    THEN [escaped |-> FALSE, result |-> o.value]
    ELSE IF o.base = "Exception"
    THEN [escaped |-> FALSE, result |-> Result(i, CRITICAL, <<>>, Str(o))]
    ELSE [escaped |-> TRUE, result |-> NoneValue]

run_plugin(i, o) ==
    IF o.kind = "return"
    THEN [escaped |-> FALSE,
          result |-> IF ~TypeIsResultOrResults(o.value)
                     THEN Result(i, SUCCESS, <<>>, Absent)
                     ELSE o.value]
    ELSE IF o.base = "Exception"
    THEN [escaped |-> FALSE, result |-> Result(i, CRITICAL, <<>>, Str(o))]
    ELSE [escaped |-> TRUE, result |-> NoneValue]

\* the check filter left out: only the source is compared
source_or_check_matches_source_only(plugin, src, chk) ==
    IF src # NoneOpt /\ plugin.module # src THEN FALSE
    ELSE TRUE

source_or_check_matches(plugin, src, chk) ==
    IF src # NoneOpt /\ plugin.module # src THEN FALSE
    ELSE IF Truthy(chk) /\ plugin.class # chk THEN FALSE
    ELSE TRUE

\* every plugin taken for a ServiceCheck
IsServiceCheck_any(plugin) == TRUE

\* no plugin taken for a ServiceCheck
IsServiceCheck_none(plugin) == FALSE

\* isinstance(plugin, ServiceCheck)
IsServiceCheck(plugin) == plugin.service

\* the orders in which the elements of a set can be iterated
Orderings(S) ==
    { q \in [1..Cardinality(S) -> S] : \A a, b \in 1..Cardinality(S) : q[a] = q[b] => a = b }

\* results.add(result) when it is a Result, results.extend(result) when it
\* is a Results, nothing otherwise
Collect(rs, result) ==
    IF IsInstanceResult(result) THEN ResultsAdd(rs, result)
    ELSE IF IsInstanceResults(result) THEN ResultsExtend(rs, result)
    ELSE rs

\* the Result values a value contributes to a Results through Collect
Contribution(result) == Collect(Results(<<>>), result).items

\* check() was not called
NotCalled == [kind |-> "none", value |-> NoneValue, base |-> Absent, text |-> Absent]

\* the record of a call of run_plugin: the plugin, the phase, how check()
\* ended, what run_plugin handed to the phase and whether the run ended there
LastCall(i, phase, o, result, aborted) ==
    [plugin |-> i, phase |-> phase, outcome |-> o, result |-> result,
     aborted |-> aborted]

\* no call of run_plugin yet
NoCall == LastCall(0, 0, NotCalled, NoneValue, FALSE)

\* the record of one plugin a phase handled: whether its check() was called,
\* the result the phase held for it, the Result values it added to the
\* phase's output, and whether handling it ended the run
LogEntry(i, phase, ran, result, aborted) ==
    [plugin |-> i, phase |-> phase, ran |-> ran,
     result |-> result, aborted |-> aborted,
     items |-> IF aborted THEN <<>> ELSE Contribution(result)]

\* -------------------------------------------------------------------- Init
Init ==
    /\ pc = "parse"
    /\ source = NoneOpt
    /\ check = NoneOpt
    /\ registries = <<>>
    /\ plugins = <<>>
    /\ output_only = FALSE
    /\ idx = 0
    /\ results = NoneValue
    /\ available = <<>>
    /\ availset = {}
    /\ depresults = NoneValue
    /\ started = <<>>
    /\ completed = <<>>
    /\ log = <<>>
    /\ rendered = <<>>
    /\ renderend = NotCalled
    /\ reported = 0
    /\ exitcode = 0
    /\ diag = [cause |-> "none", registry |-> 0]
    /\ unusual = 0
    /\ last = NoCall

\* the process ends with the given status; the cause tells where:
\*   options        sys.exit(1) of parse_options
\*   registry       sys.exit(1) of main after initialize raised an Exception
\*   registry_exit  a SystemExit raised by initialize
\*   phase1_error   the AttributeError of result.severity on a Results
\*   phase1_exit, phase2_exit, render_exit
\*                  a SystemExit raised by check() or by render
Halt(code, cause, r) ==
    /\ pc' = "halted"
    /\ exitcode' = code
    /\ diag' = [cause |-> cause, registry |-> r]

\* ----------------------------------------------------------------- actions
\* parse_options: the parsed options and their validation
ParseOptions ==
    /\ pc = "parse"
    /\ \E opt \in Options :
        /\ source' = opt[1]
        /\ check' = opt[2]
        /\ IF Truthy(opt[2]) /\ ~Truthy(opt[1])
           THEN Halt(1, "options", 0)
           ELSE pc' = "find_registries" /\ UNCHANGED <<exitcode, diag>>
    /\ UNCHANGED <<registries, plugins, output_only, idx, results, available,
                   availset, depresults, started, completed, log, rendered, renderend, reported,
                   unusual, last>>

\* find_registries(): the registries of the entry points
FindRegistries ==
    /\ pc = "find_registries"
    /\ \E n \in 0..MaxRegistries : registries' = [k \in 1..n |-> k]
    /\ pc' = "registries"
    /\ UNCHANGED <<source, check, plugins, output_only, idx, results, available,
                   availset, depresults, started, completed, log, rendered, renderend,
                   reported, exitcode, diag,
                   unusual, last>>

\* the handler prints the diagnostic and the loop goes on with the
\* registry's plugins
InitializeRegistry_continue ==
    /\ pc = "registries"
    /\ registries # <<>>
    /\ \E o \in CallOutcomes :
        IF o.kind = "return" \/ o.base = "Exception"
        THEN /\ \E ps \in PluginLists(MaxPlugins - Len(plugins),
                                      { plugins[k] : k \in 1..Len(plugins) }) :
                    plugins' = plugins \o ps
             /\ registries' = Tail(registries)
             /\ diag' = IF o.kind = "return" THEN diag
                        ELSE [cause |-> "registry", registry |-> Head(registries)]
             /\ UNCHANGED <<pc, exitcode>>
        ELSE /\ Halt(1, "registry_exit", Head(registries))
             /\ UNCHANGED <<plugins, registries>>
    /\ UNCHANGED <<source, check, output_only, idx, results, available,
                   availset, depresults, started, completed, log, rendered,
                   renderend, reported, unusual, last>>

\* one iteration of the registry loop of main: initialize, then find_plugins
InitializeRegistry ==
    /\ pc = "registries"
    /\ registries # <<>>
    /\ \E o \in CallOutcomes :
        IF o.kind = "return"
        THEN /\ \E ps \in PluginLists(MaxPlugins - Len(plugins),
                                      { plugins[k] : k \in 1..Len(plugins) }) :
                    plugins' = plugins \o ps
             /\ registries' = Tail(registries)
             /\ UNCHANGED <<pc, exitcode, diag>>
        ELSE IF o.base = "Exception"
        THEN /\ Halt(1, "registry", Head(registries))
             /\ UNCHANGED <<plugins, registries>>
        ELSE /\ Halt(1, "registry_exit", Head(registries))
             /\ UNCHANGED <<plugins, registries>>
    /\ UNCHANGED <<source, check, output_only, idx, results, available,
                   availset, depresults, started, completed, log, rendered, renderend, reported,
                   unusual, last>>

\* the output_only branch calling render itself before the common call
SelectOutput_rendering ==
    /\ pc = "registries"
    /\ registries = <<>>
    /\ \E oo \in BOOLEAN :
        /\ output_only' = oo
        /\ IF ~oo
           THEN /\ pc' = "phase1"
                /\ results' = Results(<<>>)
                /\ available' = <<>>
                /\ idx' = 1
                /\ UNCHANGED rendered
           ELSE /\ pc' = "render"
                /\ results' = NoneValue
                /\ rendered' = Append(rendered, NoneValue)
                /\ UNCHANGED <<available, idx>>
    /\ UNCHANGED <<source, check, registries, plugins, availset, depresults,
                   started, completed, log, renderend, reported, exitcode, diag,
                   unusual, last>>

\* the output_only branch handing an empty Results to render
SelectOutput_empty ==
    /\ pc = "registries"
    /\ registries = <<>>
    /\ \E oo \in BOOLEAN :
        /\ output_only' = oo
        /\ IF ~oo
           THEN /\ pc' = "phase1"
                /\ results' = Results(<<>>)
                /\ available' = <<>>
                /\ idx' = 1
           ELSE /\ pc' = "render"
                /\ results' = Results(<<>>)
                /\ UNCHANGED <<available, idx>>
    /\ UNCHANGED <<source, check, registries, plugins, availset, depresults,
                   started, completed, log, rendered, renderend, reported, exitcode, diag,
                   unusual, last>>

\* the output selection and the output_only branch of main
SelectOutput ==
    /\ pc = "registries"
    /\ registries = <<>>
    /\ \E oo \in BOOLEAN :
        /\ output_only' = oo
        /\ IF ~oo
           THEN /\ pc' = "phase1"
                /\ results' = Results(<<>>)
                /\ available' = <<>>
                /\ idx' = 1
           ELSE /\ pc' = "render"
                /\ results' = NoneValue
                /\ UNCHANGED <<available, idx>>
    /\ UNCHANGED <<source, check, registries, plugins, availset, depresults,
                   started, completed, log, rendered, renderend, reported, exitcode, diag,
                   unusual, last>>

\* result.severity exists: a Result has a severity, a Results has none
HasSeverity(v) == IsInstanceResult(v)

\* set(available)
SetOf(list) == { list[k] : k \in 1..Len(list) }

\* the service is added whatever the severity
AvailableAfter_always(avail, plugin, result) == Append(avail, plugin.service_name)

\* `available` after a ServiceCheck plugin's result
AvailableAfter(avail, plugin, result) ==
    IF result.severity = SUCCESS THEN Append(avail, plugin.service_name) ELSE avail

\* the requirements are never tested
RequirementsMet_always(plugin, avail) == TRUE

\* one available required service is enough
RequirementsMet_some(plugin, avail) ==
    plugin.requires = {} \/ plugin.requires \cap avail # {}

\* set(plugin.requires).issubset(available)
RequirementsMet(plugin, avail) == plugin.requires \subseteq avail

\* the message names every required service
Missing_all(plugin, avail) == plugin.requires

\* set(plugin.requires) - available
Missing(plugin, avail) == plugin.requires \ avail

\* the Result of a plugin whose requirements are not met; `order` is the
\* order in which join iterates over the missing services
SkipResult(i, order) == Result(i, ERROR, order, Absent)

\* the phase-2 results put in front of the phase-1 results
Aggregate_reversed(first, second) == ResultsExtend(second, first)

\* results.extend(run_plugins(...)) of main
Aggregate(first, second) == ResultsExtend(first, second)

\* ------------------------------------------------------------------ phase 1
\* run_service_plugins: a plugin the loop passes over
Phase1Skip ==
    /\ pc = "phase1"
    /\ idx <= Len(plugins)
    /\ \/ ~IsServiceCheck(plugins[idx])
       \/ ~source_or_check_matches(plugins[idx], source, check)
    /\ idx' = idx + 1
    /\ UNCHANGED <<pc, source, check, registries, plugins, output_only, results,
                   available, availset, depresults, started, completed, log,
                   rendered, renderend, reported, exitcode, diag,
                   unusual, last>>

\* run_service_plugins: run_plugin enters plugin.check()
Phase1Call ==
    /\ pc = "phase1"
    /\ idx <= Len(plugins)
    /\ IsServiceCheck(plugins[idx])
    /\ source_or_check_matches(plugins[idx], source, check)
    /\ started' = Append(started, idx)
    /\ pc' = "phase1_check"
    /\ UNCHANGED <<source, check, registries, plugins, output_only, idx, results,
                   available, availset, depresults, completed, log, rendered, renderend,
                   reported, exitcode, diag,
                   unusual, last>>

\* run_service_plugins: plugin.check() ends and the result is handled
Phase1Return ==
    /\ pc = "phase1_check"
    /\ \E o \in CheckOutcomes(idx, Len(plugins)) :
        LET r == run_plugin(idx, o) IN
        /\ o \in PlainOutcomes(idx) \/ unusual < MaxUnusual
        /\ unusual' = IF o \in PlainOutcomes(idx) THEN unusual ELSE unusual + 1
        /\ completed' = Append(completed, idx)
        /\ IF r.escaped \/ ~HasSeverity(r.result)
           THEN /\ Halt(1, IF r.escaped THEN "phase1_exit" ELSE "phase1_error", 0)
                /\ log' = Append(log, LogEntry(idx, 1, TRUE, r.result, TRUE))
                /\ last' = LastCall(idx, 1, o, r.result, TRUE)
                /\ UNCHANGED <<idx, results, available>>
           ELSE /\ available' = AvailableAfter(available, plugins[idx], r.result)
                /\ results' = Collect(results, r.result)
                /\ log' = Append(log, LogEntry(idx, 1, TRUE, r.result, FALSE))
                /\ last' = LastCall(idx, 1, o, r.result, FALSE)
                /\ idx' = idx + 1
                /\ pc' = "phase1"
                /\ UNCHANGED <<exitcode, diag>>
    /\ UNCHANGED <<source, check, registries, plugins, output_only, availset,
                   depresults, started, rendered, renderend, reported>>

\* run_service_plugins returns; main calls run_plugins
Phase1End ==
    /\ pc = "phase1"
    /\ idx > Len(plugins)
    /\ availset' = SetOf(available)
    /\ depresults' = Results(<<>>)
    /\ idx' = 1
    /\ pc' = "phase2"
    /\ UNCHANGED <<source, check, registries, plugins, output_only, results,
                   available, started, completed, log, rendered, renderend, reported,
                   exitcode, diag,
                   unusual, last>>

\* ------------------------------------------------------------------ phase 2
\* run_plugins: a plugin the loop passes over
Phase2Skip ==
    /\ pc = "phase2"
    /\ idx <= Len(plugins)
    /\ \/ IsServiceCheck(plugins[idx])
       \/ ~source_or_check_matches(plugins[idx], source, check)
    /\ idx' = idx + 1
    /\ UNCHANGED <<pc, source, check, registries, plugins, output_only, results,
                   available, availset, depresults, started, completed, log,
                   rendered, renderend, reported, exitcode, diag,
                   unusual, last>>

\* run_plugins: a plugin whose required services are not all available
Phase2Unmet ==
    /\ pc = "phase2"
    /\ idx <= Len(plugins)
    /\ ~IsServiceCheck(plugins[idx])
    /\ source_or_check_matches(plugins[idx], source, check)
    /\ ~RequirementsMet(plugins[idx], availset)
    /\ \E order \in Orderings(Missing(plugins[idx], availset)) :
        LET result == SkipResult(idx, order) IN
        /\ depresults' = Collect(depresults, result)
        /\ log' = Append(log, LogEntry(idx, 2, FALSE, result, FALSE))
    /\ idx' = idx + 1
    /\ UNCHANGED <<pc, source, check, registries, plugins, output_only, results,
                   available, availset, started, completed, rendered, renderend, reported,
                   exitcode, diag,
                   unusual, last>>

\* run_plugins: run_plugin enters plugin.check()
Phase2Call ==
    /\ pc = "phase2"
    /\ idx <= Len(plugins)
    /\ ~IsServiceCheck(plugins[idx])
    /\ source_or_check_matches(plugins[idx], source, check)
    /\ RequirementsMet(plugins[idx], availset)
    /\ started' = Append(started, idx)
    /\ pc' = "phase2_check"
    /\ UNCHANGED <<source, check, registries, plugins, output_only, idx, results,
                   available, availset, depresults, completed, log, rendered, renderend,
                   reported, exitcode, diag,
                   unusual, last>>

\* run_plugins: plugin.check() ends and the result is handled
Phase2Return ==
    /\ pc = "phase2_check"
    /\ \E o \in CheckOutcomes(idx, Len(plugins)) :
        LET r == run_plugin(idx, o) IN
        /\ o \in PlainOutcomes(idx) \/ unusual < MaxUnusual
        /\ unusual' = IF o \in PlainOutcomes(idx) THEN unusual ELSE unusual + 1
        /\ completed' = Append(completed, idx)
        /\ IF r.escaped
           THEN /\ Halt(1, "phase2_exit", 0)
                /\ log' = Append(log, LogEntry(idx, 2, TRUE, r.result, TRUE))
                /\ last' = LastCall(idx, 2, o, r.result, TRUE)
                /\ UNCHANGED <<idx, depresults>>
           ELSE /\ depresults' = Collect(depresults, r.result)
                /\ log' = Append(log, LogEntry(idx, 2, TRUE, r.result, FALSE))
                /\ last' = LastCall(idx, 2, o, r.result, FALSE)
                /\ idx' = idx + 1
                /\ pc' = "phase2"
                /\ UNCHANGED <<exitcode, diag>>
    /\ UNCHANGED <<source, check, registries, plugins, output_only, results,
                   available, availset, started, rendered, renderend, reported>>

\* run_plugins returns; main extends the phase-1 results with its results
Phase2End ==
    /\ pc = "phase2"
    /\ idx > Len(plugins)
    /\ results' = Aggregate(results, depresults)
    /\ pc' = "render"
    /\ UNCHANGED <<source, check, registries, plugins, output_only, idx,
                   available, availset, depresults, started, completed, log,
                   rendered, renderend, reported, exitcode, diag,
                   unusual, last>>

\* ------------------------------------------------------------------ render
\* render called outside any handler: its exception ends main
Render_nohandler ==
    /\ pc = "render"
    /\ rendered' = Append(rendered, results)
    /\ \E o \in CallOutcomes :
        /\ renderend' = o
        /\ IF o.kind = "return"
           THEN pc' = "done" /\ UNCHANGED <<reported, exitcode, diag>>
           ELSE Halt(1, "render_exit", 0) /\ UNCHANGED reported
    /\ UNCHANGED <<source, check, registries, plugins, output_only, idx, results,
                   available, availset, depresults, started, completed, log,
                   unusual, last>>

\* output.render(results) and the handler around it
Render ==
    /\ pc = "render"
    /\ rendered' = Append(rendered, results)
    /\ \E o \in CallOutcomes :
        /\ renderend' = o
        /\ IF o.kind = "return"
           THEN pc' = "done" /\ UNCHANGED <<reported, exitcode, diag>>
           ELSE IF o.base = "Exception"
           THEN pc' = "done" /\ reported' = reported + 1 /\ UNCHANGED <<exitcode, diag>>
           ELSE Halt(1, "render_exit", 0) /\ UNCHANGED reported
    /\ UNCHANGED <<source, check, registries, plugins, output_only, idx, results,
                   available, availset, depresults, started, completed, log,
                   unusual, last>>

Next ==
    \/ ParseOptions
    \/ FindRegistries
    \/ InitializeRegistry
    \/ SelectOutput
    \/ Phase1Skip
    \/ Phase1Call
    \/ Phase1Return
    \/ Phase1End
    \/ Phase2Skip
    \/ Phase2Unmet
    \/ Phase2Call
    \/ Phase2Return
    \/ Phase2End
    \/ Render

Spec == Init /\ [][Next]_vars

\* ------------------------------------------------------------- properties
Range(seq) == { seq[k] : k \in 1..Len(seq) }

\* run_plugins has been entered
InPhase2OrLater ==
    \/ pc \in {"phase2", "phase2_check"}
    \/ pc \in {"render", "done"} /\ ~output_only
    \/ pc = "halted" /\ diag.cause = "phase2_exit"
    \/ pc = "halted" /\ diag.cause = "render_exit" /\ ~output_only

\* the non-ServiceCheck plugins matching the filter that run_plugins has
\* gone past
Phase2Handled ==
    { i \in 1..Len(plugins) :
        /\ InPhase2OrLater
        /\ i < idx
        /\ ~plugins[i].service
        /\ source_or_check_matches(plugins[i], source, check) }

\* C1: in phase 2 a filter-matching non-ServiceCheck plugin whose requires
\* is not a subset of the available set never has check() invoked and gets
\* exactly one ERROR Result referencing it whose message names exactly the
\* services of requires minus available; one whose requires is a subset
\* (the empty requires included) has check() invoked through run_plugin.
C1_UnmetRequirementsSkipped ==
    /\ \A i \in Phase2Handled :
          Cardinality({ k \in 1..Len(log) : log[k].plugin = i /\ log[k].phase = 2 }) = 1
    /\ \A k \in 1..Len(log) :
          log[k].phase = 2 =>
            LET i == log[k].plugin
                wanted == plugins[i].requires \ availset
            IN  IF wanted # {}
                THEN /\ ~log[k].ran
                     /\ i \notin Range(started)
                     /\ Len(log[k].items) = 1
                     /\ log[k].items[1].type = "Result"
                     /\ log[k].items[1].plugin = i
                     /\ log[k].items[1].severity = ERROR
                     /\ Range(log[k].items[1].msg) = wanted
                     /\ Len(log[k].items[1].msg) = Cardinality(wanted)
                     /\ Cardinality({ m \in 1..Len(depresults.items) :
                                        /\ depresults.items[m].plugin = i
                                        /\ depresults.items[m].severity = ERROR }) = 1
                ELSE /\ log[k].ran
                     /\ i \in Range(started)

\* a plugin requiring A and B was skipped with only A available, its message
\* naming B, and another plugin of the same run was run by phase 2
C1_Witness ==
    /\ pc = "done"
    /\ availset = {"A"}
    /\ \E k \in 1..Len(log) :
          /\ log[k].phase = 2 /\ ~log[k].ran
          /\ plugins[log[k].plugin].requires = {"A", "B"}
          /\ log[k].items[1].msg = <<"B">>
    /\ \E k \in 1..Len(log) : log[k].phase = 2 /\ log[k].ran

\* check() raised an exception of a class derived from Exception
Faulted(c) == c.outcome.kind = "raise" /\ c.outcome.base = "Exception"

\* C2: when check() faults with message M, run_plugin returns exactly one
\* Result, of severity CRITICAL, referencing the plugin, whose fault text is
\* M; the fault does not leave run_plugin and the phase goes on to the next
\* plugin.
C2_FaultBecomesCritical ==
    Faulted(last) =>
        /\ last.result = Result(last.plugin, CRITICAL, <<>>, last.outcome.text)
        /\ ~last.aborted
        /\ \E k \in 1..Len(log) :
              /\ log[k].plugin = last.plugin
              /\ log[k].items = <<last.result>>
        /\ pc = "halted" => diag.cause = "render_exit"
        /\ (pc = "phase1" /\ last.phase = 1) => idx > last.plugin
        /\ (pc = "phase2" /\ last.phase = 2) => idx > last.plugin

\* a check() faulted with message M2 in phase 1 and the phase has entered
\* the check() of a later plugin
C2_Witness ==
    /\ Faulted(last)
    /\ last.outcome.text = "M2"
    /\ last.phase = 1
    /\ pc = "phase1_check"
    /\ idx > last.plugin

\* C3: whatever a plugin's check() raises or returns, it does not end the
\* run; of the faults, only a registry initialization fault does.
C3_OnlyRegistryFaultsAreFatal ==
    pc = "halted" => diag.cause \notin {"phase1_error", "phase1_exit", "phase2_exit"}

\* check() returned a value that is neither a Result nor a Results
ReturnedOther(c) ==
    /\ c.outcome.kind = "return"
    /\ c.outcome.value.type \notin {"Result", "SubResult", "Results", "SubResults"}

\* C4: when check() returns a value that is neither a Result nor a Results
\* (nothing included), run_plugin returns exactly one Result, of severity
\* SUCCESS, referencing the plugin.
C4_NoResultIsSuccess ==
    ReturnedOther(last) =>
        /\ last.result = Result(last.plugin, SUCCESS, <<>>, Absent)
        /\ ~last.aborted
        /\ \E k \in 1..Len(log) :
              /\ log[k].plugin = last.plugin
              /\ log[k].items = <<last.result>>

\* the check() of a ServiceCheck plugin returned nothing and its service
\* became available
C4_Witness ==
    /\ pc = "phase1"
    /\ ReturnedOther(last)
    /\ last.outcome.value = NoneValue
    /\ last.phase = 1
    /\ plugins[last.plugin].service_name \in Range(available)

\* C5: when check() returns a Result or a Results, a specialised variant of
\* either included, run_plugin returns that value unchanged.
C5_ResultPassedThrough ==
    /\ last.outcome.kind = "return"
    /\ last.outcome.value.type \in {"Result", "SubResult", "Results", "SubResults"}
    => last.result = last.outcome.value

\* the services the phase-1 log shows as probed with severity SUCCESS
SucceededServices ==
    { plugins[log[k].plugin].service_name :
        k \in { j \in 1..Len(log) : /\ log[j].phase = 1
                                    /\ ~log[j].aborted
                                    /\ log[j].result.severity = SUCCESS } }

\* C6: from the end of phase 1 on, the available set is exactly the set of
\* service_name values of the filter-matching ServiceCheck plugins whose
\* run_plugin result had severity SUCCESS; phase 2 and rendering leave it
\* alone.
C6_AvailableIsPhase1Successes ==
    /\ \A k \in 1..Len(log) :
          log[k].phase = 1 =>
            /\ plugins[log[k].plugin].service
            /\ source_or_check_matches(plugins[log[k].plugin], source, check)
    /\ pc \in {"phase1", "phase1_check"} => Range(available) = SucceededServices
    /\ InPhase2OrLater =>
          /\ availset = SucceededServices
          /\ \A i \in 1..Len(plugins) :
                plugins[i].service /\ source_or_check_matches(plugins[i], source, check)
                => \E k \in 1..Len(log) : log[k].plugin = i /\ log[k].phase = 1

\* the run is over, A was probed with SUCCESS, B with another severity, and
\* only A is available
C6_Witness ==
    /\ pc = "done"
    /\ availset = {"A"}
    /\ \E k \in 1..Len(log) :
          /\ log[k].phase = 1
          /\ plugins[log[k].plugin].service_name = "B"
          /\ log[k].result.severity = CRITICAL
    /\ \E k \in 1..Len(log) : log[k].phase = 2

\* the Result values of the log, in order
RECURSIVE LogItems(_)
LogItems(l) == IF l = <<>> THEN <<>> ELSE Head(l).items \o LogItems(Tail(l))

\* C7: the Results handed to render is the phase-1 output followed by the
\* phase-2 output: the Results of ServiceCheck plugins before those of the
\* other plugins, in discovery order within each phase, each plugin's
\* Results contiguous, nothing reordered, dropped or deduplicated.
C7_RenderedIsPhase1ThenPhase2 ==
    /\ \A a, b \in 1..Len(log) :
          a < b => \/ log[a].phase < log[b].phase
                   \/ log[a].phase = log[b].phase /\ log[a].plugin < log[b].plugin
    /\ \A k \in 1..Len(log) : (log[k].phase = 1) <=> plugins[log[k].plugin].service
    /\ \A k \in 1..Len(rendered) :
          ~output_only => /\ rendered[k].type = "Results"
                          /\ rendered[k].items = LogItems(log)

\* render was handed Results of both phases, one plugin having contributed
\* several Result values, with a ServiceCheck plugin discovered after a
\* plugin of phase 2
C7_Witness ==
    /\ Len(rendered) = 1
    /\ ~output_only
    /\ Len(rendered[1].items) >= 3
    /\ \E k \in 1..Len(log) : Len(log[k].items) = 2
    /\ \E a, b \in 1..Len(log) :
          log[a].phase = 1 /\ log[b].phase = 2 /\ log[b].plugin < log[a].plugin

\* C8: check() invocations are sequential and ordered: at most one is in
\* progress, each phase invokes them in discovery order, and no check() of a
\* non-ServiceCheck plugin starts before the check() of every
\* filter-matching ServiceCheck plugin has completed.
C8_ChecksAreSequential ==
    /\ Len(started) - Len(completed) \in {0, 1}
    /\ completed = SubSeq(started, 1, Len(completed))
    /\ \A a, b \in 1..Len(started) :
          a < b => \/ plugins[started[a]].service /\ ~plugins[started[b]].service
                   \/ /\ plugins[started[a]].service = plugins[started[b]].service
                      /\ started[a] < started[b]
    /\ \A b \in 1..Len(started) :
          ~plugins[started[b]].service =>
            \A j \in 1..Len(plugins) :
                plugins[j].service /\ source_or_check_matches(plugins[j], source, check)
                => /\ j \in Range(SubSeq(started, 1, b - 1))
                   /\ j \in Range(completed)

\* a plugin of phase 2 discovered before two ServiceCheck plugins is in its
\* check() after both of theirs completed
C8_Witness ==
    /\ pc = "phase2_check"
    /\ Len(started) = 3
    /\ Len(completed) = 2
    /\ started[3] < started[1]

C10_OutputOnlySkipsPhases ==
    output_only =>
        /\ started = <<>>
        /\ log = <<>>
        /\ results = NoneValue
        /\ depresults = NoneValue
        /\ pc \in {"render", "done", "halted"}
        /\ \A k \in 1..Len(rendered) : rendered[k] = NoneValue
        /\ pc = "done" => rendered = <<NoneValue>>

\* an output-only run over a non-empty plugin list ended after render(None)
C10_Witness ==
    /\ output_only
    /\ pc = "done"
    /\ \E i \in 1..Len(plugins) : source_or_check_matches(plugins[i], source, check)
    /\ rendered = <<NoneValue>>

\* render raised an exception of a class derived from Exception
RenderFaulted == renderend.kind = "raise" /\ renderend.base = "Exception"

\* C11: when render faults the run still completes normally: the fault does
\* not leave main, the process is not ended by it, and it is reported
\* exactly once.
C11_RendererFaultIsolated ==
    RenderFaulted =>
        /\ pc = "done"
        /\ exitcode = 0
        /\ diag.cause = "none"
        /\ reported = 1
        /\ Len(rendered) = 1

\* render faulted when handed the Results of a run in which both phases ran
\* a check()
C11_Witness ==
    /\ RenderFaulted
    /\ ~output_only
    /\ pc = "done"
    /\ \E a, b \in 1..Len(log) : log[a].phase = 1 /\ log[b].phase = 2 /\ log[b].ran

\* C12: when a registry's initialize faults, the run ends with exit code 1
\* and a diagnostic naming that registry, the first one not yet initialised,
\* and no check() was or is invoked in the run, wherever the failing registry
\* stands among the registries.
C12_RegistryFaultAborts ==
    diag.cause = "registry" =>
        /\ pc = "halted"
        /\ exitcode = 1
        /\ registries # <<>>
        /\ diag.registry = Head(registries)
        /\ started = <<>>
        /\ log = <<>>
        /\ rendered = <<>>

\* the second registry's initialize faulted after the first registry was
\* initialised and its plugins were enumerated
C12_Witness ==
    /\ pc = "halted"
    /\ diag = [cause |-> "registry", registry |-> 2]
    /\ Len(plugins) >= 2
    /\ \E i \in 1..Len(plugins) : plugins[i].service

\* the filter as the specification words it: a filter value that is not
\* None must equal the plugin's module, respectively its class name
FilterAsSpecified(plugin, src, chk) ==
    /\ src = NoneOpt \/ plugin.module = src
    /\ chk = NoneOpt \/ plugin.class = chk

\* C13: for every plugin and every source and check, each None or any
\* string, the empty string included, source_or_check_matches is true
\* exactly when source is None or equals the plugin's module and check is
\* None or equals the plugin's class name; both phases apply it with the
\* same arguments, so every plugin a phase handled satisfies it.
C13_FilterIsConjunction ==
    /\ \A i \in 1..Len(plugins) :
          source_or_check_matches(plugins[i], source, check)
          <=> FilterAsSpecified(plugins[i], source, check)
    /\ \A k \in 1..Len(log) :
          FilterAsSpecified(plugins[log[k].plugin], source, check)

\* both phases have gone through the whole list
PhasesOver ==
    /\ ~output_only
    /\ \/ pc \in {"render", "done"}
       \/ pc = "halted" /\ diag.cause = "render_exit"

\* the positions in the log of the plugins a phase handled
HandledBy(phase, i) == { k \in 1..Len(log) : log[k].phase = phase /\ log[k].plugin = i }

\* C14: each plugin of the discovered list is handled by exactly one phase:
\* a ServiceCheck plugin by phase 1 and never by phase 2, every other plugin
\* by phase 2 and never by phase 1, none by both and, once both phases are
\* over, none that the filter selects by neither; each phase keeps the
\* discovery order.
C14_OnePhasePerPlugin ==
    /\ \A i \in 1..Len(plugins) :
          LET first == HandledBy(1, i)
              second == HandledBy(2, i)
          IN  /\ plugins[i].service => second = {}
              /\ ~plugins[i].service => first = {}
              /\ Cardinality(first \cup second) <= 1
              /\ (PhasesOver /\ source_or_check_matches(plugins[i], source, check))
                 => Cardinality(first \cup second) = 1
    /\ \A a, b \in 1..Len(log) :
          (a < b /\ log[a].phase = log[b].phase) => log[a].plugin < log[b].plugin

\* with no filter, both phases are over for a list of three plugins in which
\* a plugin of phase 2 stands between two ServiceCheck plugins, and each of
\* the three was handled
C14_Witness ==
    /\ PhasesOver
    /\ source = NoneOpt /\ check = NoneOpt
    /\ Len(plugins) = 3
    /\ plugins[1].service /\ ~plugins[2].service /\ plugins[3].service
    /\ Len(log) = 3
    /\ log[3].plugin = 2

\* the plugins of the scenario: svc_a probing A, svc_b probing B, and dep
\* requiring both
SvcA == [service |-> TRUE, module |-> "m1", class |-> "ca", service_name |-> "A", requires |-> {}]
SvcB == [service |-> TRUE, module |-> "m2", class |-> "cb", service_name |-> "B", requires |-> {}]
Dep == [service |-> FALSE, module |-> "m2", class |-> "cd", service_name |-> Absent, requires |-> {"A", "B"}]

\* both phases are over for the list made of svc_a at position a, svc_b at
\* position b and dep at position d; svc_a was reported SUCCESS and svc_b
\* CRITICAL
Scenario(a, b, d) ==
    /\ PhasesOver
    /\ Len(plugins) = 3
    /\ a < b
    /\ plugins[a] = SvcA /\ plugins[b] = SvcB /\ plugins[d] = Dep
    /\ Len(log) = 3
    /\ log[1].plugin = a /\ log[1].result = Result(a, SUCCESS, <<>>, Absent)
    /\ log[2].plugin = b /\ log[2].result.type = "Result"
    /\ log[2].result.plugin = b /\ log[2].result.severity = CRITICAL

\* C15: over a whole run the check() of a plugin of phase 2 is invoked only
\* if, earlier in the run, every service it requires was reported SUCCESS by
\* a ServiceCheck plugin whose check() had completed; in the scenario of
\* svc_a (SUCCESS), svc_b (CRITICAL) and dep (requires A and B) the
\* aggregate is exactly SUCCESS(svc_a), CRITICAL(svc_b), ERROR(dep, missing
\* B) and dep's check() is never invoked.
C15_DependentsNeedSuccesses ==
    /\ \A n \in 1..Len(started) :
          ~plugins[started[n]].service =>
            \A s \in plugins[started[n]].requires :
                \E k \in 1..Len(log) :
                    /\ log[k].phase = 1
                    /\ plugins[log[k].plugin].service
                    /\ plugins[log[k].plugin].service_name = s
                    /\ log[k].result.severity = SUCCESS
                    /\ log[k].plugin \in Range(SubSeq(completed, 1, n - 1))
    /\ PhasesOver =>
          \A a, b, d \in 1..Len(plugins) :
              Scenario(a, b, d) =>
                /\ d \notin Range(started)
                /\ results.items = << log[1].result, log[2].result,
                                      Result(d, ERROR, <<"B">>, Absent) >>
                /\ \A k \in 1..Len(rendered) : rendered[k] = results

\* the scenario with dep discovered first was rendered
C15_Witness ==
    /\ Scenario(2, 3, 1)
    /\ pc = "done"
    /\ Len(rendered) = 1
    /\ Len(rendered[1].items) = 3
    /\ rendered[1].items[3].msg = <<"B">>

\* C16: in phase 1, when the check() of a filter-matching ServiceCheck
\* plugin returns a Results, the phase-1 output is extended with its members
\* in order and phase 1 goes on to the next plugin; the run does not fail
\* on that plugin.
C16_ResultsExtendPhase1 ==
    /\ last.phase = 1
    /\ last.outcome.kind = "return"
    /\ last.outcome.value.type = "Results"
    => /\ ~last.aborted
       /\ \E k \in 1..Len(log) :
             /\ log[k].plugin = last.plugin
             /\ log[k].items = last.outcome.value.items
       /\ pc = "halted" => diag.cause = "render_exit"

\* C17: every Result of the Results handed to render references the plugin
\* whose handling produced it: the plugin whose check() returned it, or the
\* plugin that was run or skipped when the Result was synthesized.
C17_ResultsReferenceProducer ==
    \A r \in 1..Len(rendered) :
        ~output_only =>
            /\ rendered[r].items = LogItems(log)
            /\ \A k \in 1..Len(log) :
                  \A m \in 1..Len(log[k].items) :
                      log[k].items[m].plugin = log[k].plugin

\* the options select plugin i: no source is given or it is the plugin's
\* module, and no check is given (None or empty) or it is the plugin's class
Selected(i) ==
    /\ source = NoneOpt \/ plugins[i].module = source
    /\ check \in {NoneOpt, ""} \/ plugins[i].class = check

\* C18: in any run check() is invoked at most once for each plugin of the
\* discovered list; once both phases are over, exactly once for a plugin the
\* filter selects that is not skipped for unmet requirements; a plugin the
\* filter does not select has check() invoked zero times and contributes no
\* Result.
C18_CheckAtMostOnce ==
    /\ \A a, b \in 1..Len(started) : a # b => started[a] # started[b]
    /\ \A i \in 1..Len(plugins) :
          /\ ~Selected(i) =>
                /\ i \notin Range(started)
                /\ \A k \in 1..Len(log) : log[k].plugin # i
          /\ (PhasesOver /\ Selected(i)) =>
                /\ (plugins[i].service \/ plugins[i].requires \subseteq availset)
                   => Cardinality({ n \in 1..Len(started) : started[n] = i }) = 1
                /\ ~(plugins[i].service \/ plugins[i].requires \subseteq availset)
                   => i \notin Range(started)

\* with --source m2, both phases are over for a list of a plugin of another
\* module, never invoked, a ServiceCheck plugin of m2, invoked once, and a
\* plugin of m2 skipped for unmet requirements
C18_Witness ==
    /\ PhasesOver
    /\ source = "m2" /\ check = NoneOpt
    /\ Len(plugins) = 3
    /\ plugins[1].module = "m1"
    /\ plugins[2].service /\ plugins[2].module = "m2"
    /\ plugins[3].requires = {"A", "B"}
    /\ started = <<2>>
    /\ Len(log) = 2

\* the filter selects no ServiceCheck plugin of the list
NoServiceSelected ==
    \A i \in 1..Len(plugins) :
        plugins[i].service => ~source_or_check_matches(plugins[i], source, check)

\* C19: when the filter selects no ServiceCheck plugin the available set is
\* empty, and then every plugin of phase 2 the filter selects that requires
\* some service gets one ERROR Result whose message lists all the services
\* it requires, its check() not being invoked, while one that requires
\* nothing is still run.
C19_NoServiceSelectedSkipsDependents ==
    (InPhase2OrLater /\ NoServiceSelected) =>
        /\ availset = {}
        /\ \A k \in 1..Len(log) : log[k].phase = 2
        /\ \A i \in Phase2Handled :
              \E k \in 1..Len(log) :
                  /\ log[k].plugin = i
                  /\ IF plugins[i].requires # {}
                     THEN /\ ~log[k].ran
                          /\ i \notin Range(started)
                          /\ Len(log[k].items) = 1
                          /\ log[k].items[1].type = "Result"
                          /\ log[k].items[1].plugin = i
                          /\ log[k].items[1].severity = ERROR
                          /\ Range(log[k].items[1].msg) = plugins[i].requires
                          /\ Len(log[k].items[1].msg) = Cardinality(plugins[i].requires)
                     ELSE /\ log[k].ran
                          /\ i \in Range(started)

\* with --source m2 --check cd, a run over a list holding a ServiceCheck
\* plugin of m2 probing A ended with no check() invoked and the plugin cd
\* skipped, its message listing A and B
C19_Witness ==
    /\ pc = "done"
    /\ source = "m2" /\ check = "cd"
    /\ \E i \in 1..Len(plugins) :
          plugins[i].service /\ plugins[i].module = "m2" /\ plugins[i].service_name = "A"
    /\ started = <<>>
    /\ Len(log) = 1
    /\ Range(log[1].items[1].msg) = {"A", "B"}

\* the run is over, every registry was initialised and every check() that
\* was invoked, and render if it was called, returned or raised an exception
\* derived from Exception
EndedAfterAllReturned ==
    /\ pc \in {"done", "halted"}
    /\ diag.cause \notin {"options", "registry", "registry_exit",
                          "phase1_exit", "phase2_exit", "render_exit"}

\* C20: a run in which every registry initialises and every check() invoked
\* and the render call return, normally or by faulting, ends having called
\* render, after at most as many check() invocations as there are
\* discovered plugins; while a check() has not returned no later plugin is
\* reached and render is not called.
C20_RunEndsRendered ==
    /\ Len(started) <= Len(plugins)
    /\ pc \in {"phase1_check", "phase2_check"} =>
          /\ rendered = <<>>
          /\ started[Len(started)] = idx
          /\ Len(completed) = Len(started) - 1
    /\ EndedAfterAllReturned =>
          /\ registries = <<>>
          /\ Len(completed) = Len(started)
          /\ Len(rendered) = 1

====
